---- MODULE Spec2Model ----
(***************************************************************************)
(* SecureChain backend: the hash-chained ledger (blockchain.py), the       *)
(* wallet handlers (wallet.py: add_funds, transfer, mock_deposit), the     *)
(* generic transaction handler (routes.py: create_transaction), the fraud  *)
(* scorer (ml_model.py) and registration (auth.py), as request processes   *)
(* over one committed database state.                                      *)
(*                                                                         *)
(* Each request is a process p; its steps are the points where the handler *)
(* talks to the database (a snapshot read, a commit) or to process-wide    *)
(* state (the deposit guard, the fraud model).  The database is MySQL      *)
(* under its default isolation (REPEATABLE READ): the reads of one session *)
(* transaction see the snapshot of its first read, and an UPDATE flushed   *)
(* by SQLAlchemy writes the absolute value computed in Python.             *)
(* Amounts are whole rupees, fraud scores are thousandths.                 *)
(***************************************************************************)
EXTENDS Integers, Sequences, FiniteSets, TLC

\* ------------------------------------------------------------------ bounds
MaxClock == 1
MaxBalance == 15
MaxTx == 2

\* -------------------------------------------------------- program constants
MinDeposit == 10
WARNING_THRESHOLD == 400
FRAUD_THRESHOLD == 700
MIN_SAMPLES_TO_TRAIN == 10
RetrainEvery == 10
HashLen == 64

Procs == {1, 2}

\* user ids: 1 is the seeded admin, 2 can register, DeletedUser is the id of a
\* still valid token whose User row (and wallet) no longer exists
AdminUser == 1
DeletedUser == 3
UserIds == {1, 2}
Callers == UserIds \cup {DeletedUser}

Amounts == {0, 5, 10}
PaymentMethods == {"upi", "paypal"}
HashSeeds == {7}
RawScores == {-600, -200, 100, 600}
\* the server is started in the last millisecond of 05:59 UTC
BootHour == 5
HourOf(t) == IF t <= 0 THEN BootHour ELSE BootHour + 1
PayIds == {"PAY_0A1B"}

Email(u) == IF u = AdminUser THEN "admin@securechain.com" ELSE "bob@x.io"

\* str.lower() on the identities that occur
Lower(s) ==
    CASE s = "Admin@SecureChain.com" -> "admin@securechain.com"
      [] s = "Bank Deposit" -> "bank deposit"
      [] s = "Unknown" -> "unknown"
      [] OTHER -> s

CtParties == {<<"Admin@SecureChain.com", "bob@x.io">>, <<"bob@x.io", "bob@x.io">>}

\* generate_wallet_id: SHA-256 of the payload, kept as the payload itself
generate_wallet_id(user_id, email) == <<"wallet", user_id, email>>

UnknownWalletId == <<"wallet", 9, "nobody">>
MissingWalletId == <<>>
ReceiverIds ==
    {generate_wallet_id(u, Email(u)) : u \in UserIds} \cup {UnknownWalletId, MissingWalletId}

ZeroHash == [i \in 1..HashLen |-> 0]

\* the canonical string of a transaction id "TX-<ms>" / "DEP-<ms>" as digits
TxIdStr(tx_id) == <<IF tx_id[1] = "TX" THEN 1 ELSE 2, tx_id[2]>>

\* compute_hash(payload), payload = tx id ++ previous hash ++ timestamp ++ index:
\* SHA-256 is taken to be collision free, so the digest is an injective
\* encoding of the payload
compute_hash(transaction_id, prev_hash, ts, new_index) ==
    prev_hash \o TxIdStr(transaction_id) \o <<ts, new_index>>

NoTxId == <<"", 0>>
NoBlock == [block_index |-> -1, transaction_id |-> NoTxId, previous_hash |-> <<>>,
            current_hash |-> <<>>, timestamp |-> 0]

VARIABLES
    users,               \* ids of the rows of table users
    wallets,             \* table wallets: rows [user_id, wallet_id, balance]
    transactions,        \* table transactions, in insertion order
    blocks,              \* table blockchain, in insertion order
    deposit_processing,  \* wallet._deposit_processing
    model,               \* ml_model._model: "None", "unfitted" or "fitted"
    is_trained,          \* ml_model._is_trained
    now,                 \* the clock, in milliseconds
    hash_seed,           \* the salt of Python's str hash, drawn when the process starts
    proc,                \* per request process: position, request, locals
    resp,                \* per request process: the response once returned
    pre                  \* per request process: what an observer of a request served
                         \* alone recorded of the database as the request found it

vars == <<users, wallets, transactions, blocks, deposit_processing, model,
          is_trained, now, hash_seed, proc, resp, pre>>

db == <<users, wallets, transactions, blocks>>
ml == <<model, is_trained, hash_seed>>

\* ------------------------------------------------------------ table access
HasWallet(u) == \E i \in DOMAIN wallets : wallets[i].user_id = u
WalletIdx(u) == CHOOSE i \in DOMAIN wallets : wallets[i].user_id = u
Balance(u) == wallets[WalletIdx(u)].balance
HasWalletId(w) == \E i \in DOMAIN wallets : wallets[i].wallet_id = w
WalletIdxById(w) == CHOOSE i \in DOMAIN wallets : wallets[i].wallet_id = w

\* for comparison: table transactions without the unique key on tx_id
HasTx_never(tx_id) == FALSE

\* the unique key on transactions.tx_id refuses a row with this tx_id
HasTx(tx_id) == \E i \in DOMAIN transactions : transactions[i].tx_id = tx_id

NoResp == [status |-> 0, error |-> "", transferStatus |-> ""]
Response(code, err) == [status |-> code, error |-> err, transferStatus |-> ""]
TransferResponse(code, err, ts) == [status |-> code, error |-> err, transferStatus |-> ts]

NoPre == [wallets |-> <<>>, transactions |-> <<>>, blocks |-> <<>>]
Snapshot == [wallets |-> wallets, transactions |-> transactions, blocks |-> blocks]

Idle == [pc |-> "idle", op |-> "none", user |-> 0, amount |-> 0,
         receiver_wallet_id |-> MissingWalletId, payment_method |-> "",
         sender |-> "", receiver |-> "", bal |-> 0, rbal |-> 0, ruser |-> 0,
         sender_freq |-> 0, receiver_freq |-> 0, hour |-> 0, fraud_score |-> 0,
         tx_id |-> NoTxId, block |-> NoBlock, fault |-> "none"]

\* requests in flight that will insert a transaction record
TxOps == {"transfer", "create_transaction", "mock_deposit"}
InFlightTx == Cardinality({q \in Procs : proc[q].op \in TxOps /\ proc[q].pc # "done"})
\* the records inserted from time 0 on, the time every specification starts at
SinceBoot == {i \in DOMAIN transactions : transactions[i].tx_id[2] >= 0}
RoomForTx == Cardinality(SinceBoot) + InFlightTx < MaxTx

\* a credit is accepted while it keeps the balance that the request reads
\* within MaxBalance
RoomForCredit(u, amount) ==
    HasWallet(u) => Balance(u) + amount <= MaxBalance

Return(p, r) ==
    /\ proc' = [proc EXCEPT ![p].pc = "done"]
    /\ resp' = [resp EXCEPT ![p] = r]

\* ------------------------------------------------------------------- Init
\* app.create_app on an empty database: _seed_admin creates the admin and,
\* through create_wallet_for_user, the admin's wallet with balance 0
Init ==
    /\ users = {AdminUser}
    /\ wallets = <<[user_id |-> AdminUser,
                    wallet_id |-> generate_wallet_id(AdminUser, Email(AdminUser)),
                    balance |-> 0]>>
    /\ transactions = <<>>
    /\ blocks = <<>>
    /\ deposit_processing = {}
    /\ model = "None"
    /\ is_trained = FALSE
    /\ now = 0
    /\ hash_seed \in HashSeeds
    /\ proc = [p \in Procs |-> Idle]
    /\ resp = [p \in Procs |-> NoResp]
    /\ pre = [p \in Procs |-> NoPre]

\* time passes
Tick ==
    /\ now < MaxClock
    /\ now' = now + 1
    /\ UNCHANGED <<db, deposit_processing, ml, proc, resp, pre>>

\* the response has been sent; the worker takes the next request
Finish(p) ==
    /\ proc[p].pc = "done"
    /\ proc' = [proc EXCEPT ![p] = Idle]
    /\ resp' = [resp EXCEPT ![p] = NoResp]
    /\ pre' = [pre EXCEPT ![p] = NoPre]
    /\ UNCHANGED <<db, deposit_processing, ml, now>>

\* for comparison: table wallets without the unique key on user_id
UniqueUserId_absent(u) == TRUE

\* the unique key on wallets.user_id lets a row for user u in
UniqueUserId(u) == ~HasWallet(u)

\* create_wallet_for_user(user) as called by a session whose snapshot showed no
\* wallet: the INSERT meets the unique key on user_id if one was committed since
create_wallet_for_user(u) ==
    Append(wallets, [user_id |-> u, wallet_id |-> generate_wallet_id(u, Email(u)),
                     balance |-> 0])

\* variants, for comparison: an increment left to the database
\* (UPDATE wallets SET balance = balance + <delta>), a flush that drops debits,
\* an assignment in place of the increment, and a change that is never flushed
flush_in_place(loaded, stored, delta) == stored + delta
flush_credit_only(loaded, stored, delta) == IF delta < 0 THEN loaded ELSE loaded + delta
flush_assigned(loaded, stored, delta) == delta
flush_none(loaded, stored, delta) == stored

\* wallet.balance += amount / -= amount on the loaded row, then the flush: the
\* session writes the value it computed from the balance it loaded
\* (UPDATE wallets SET balance = <value>), whatever the row holds by then
flush_balance(loaded, stored, delta) == loaded + delta

\* ---------------------------------------------------------------- add_funds
AddFundsBegin(p, callers, amounts, before) ==
    /\ proc[p].pc = "idle"
    /\ \E user \in callers, amount \in amounts :
        /\ user \in UserIds => RoomForCredit(user, amount)
        /\ pre' = [pre EXCEPT ![p] = before]
        /\ LET me == [Idle EXCEPT !.op = "add_funds", !.user = user, !.amount = amount]
           IN  IF amount <= 0
               THEN /\ proc' = [proc EXCEPT ![p] = [me EXCEPT !.pc = "done"]]
                    /\ resp' = [resp EXCEPT ![p] = Response(400, "amount must be positive")]
               ELSE IF user \in UserIds /\ HasWallet(user)
               THEN /\ proc' = [proc EXCEPT ![p] =
                                  [me EXCEPT !.pc = "af_commit", !.bal = Balance(user)]]
                    /\ UNCHANGED resp
               ELSE IF user \notin users
               THEN /\ proc' = [proc EXCEPT ![p] = [me EXCEPT !.pc = "done"]]
                    /\ resp' = [resp EXCEPT ![p] = Response(404, "User not found")]
               ELSE /\ proc' = [proc EXCEPT ![p] = [me EXCEPT !.pc = "af_create"]]
                    /\ UNCHANGED resp
    /\ UNCHANGED <<db, deposit_processing, ml, now>>

AddFundsCreate(p, storage_fails) ==
    /\ proc[p].pc = "af_create"
    /\ \/ /\ UniqueUserId(proc[p].user)
          /\ wallets' = create_wallet_for_user(proc[p].user)
          /\ proc' = [proc EXCEPT ![p].pc = "af_refresh"]
          /\ UNCHANGED resp
       \/ /\ HasWallet(proc[p].user) \/ storage_fails
          /\ Return(p, Response(500, "Internal Server Error"))
          /\ UNCHANGED wallets
    /\ UNCHANGED <<users, transactions, blocks, deposit_processing, ml, now, pre>>

AddFundsRefresh(p) ==
    /\ proc[p].pc = "af_refresh"
    /\ proc' = [proc EXCEPT ![p].pc = "af_commit", ![p].bal = Balance(proc[p].user)]
    /\ UNCHANGED <<db, deposit_processing, ml, now, resp, pre>>

AddFundsCommit(p, storage_fails) ==
    /\ proc[p].pc = "af_commit"
    /\ \/ /\ wallets' = [wallets EXCEPT ![WalletIdx(proc[p].user)].balance =
                 flush_balance(proc[p].bal, Balance(proc[p].user), proc[p].amount)]
          /\ Return(p, Response(200, ""))
       \/ /\ storage_fails
          /\ Return(p, Response(500, "Internal Server Error"))
          /\ UNCHANGED wallets
    /\ UNCHANGED <<users, transactions, blocks, deposit_processing, ml, now, pre>>

\* ---------------------------------------------------------------- get_wallet
\* lines 59-66 and, with a wallet, 69-72
GetWalletBegin(p, callers, before) ==
    /\ proc[p].pc = "idle"
    /\ \E user \in callers :
        LET me == [Idle EXCEPT !.op = "get_wallet", !.user = user]
        IN  /\ pre' = [pre EXCEPT ![p] = before]
            /\ IF HasWallet(user)
               THEN /\ proc' = [proc EXCEPT ![p] = [me EXCEPT !.pc = "done",
                                                             !.bal = Balance(user)]]
                    /\ resp' = [resp EXCEPT ![p] = Response(200, "")]
               ELSE IF user \notin users
               THEN /\ proc' = [proc EXCEPT ![p] = [me EXCEPT !.pc = "done"]]
                    /\ resp' = [resp EXCEPT ![p] = Response(404, "User not found")]
               ELSE /\ proc' = [proc EXCEPT ![p] = [me EXCEPT !.pc = "gw_create"]]
                    /\ UNCHANGED resp
    /\ UNCHANGED <<db, deposit_processing, ml, now>>

\* line 67, create_wallet_for_user, then lines 69-72
GetWalletCreate(p, storage_fails) ==
    /\ proc[p].pc = "gw_create"
    /\ \/ /\ UniqueUserId(proc[p].user)
          /\ wallets' = create_wallet_for_user(proc[p].user)
          /\ Return(p, Response(200, ""))
       \/ /\ HasWallet(proc[p].user) \/ storage_fails
          /\ Return(p, Response(500, "Internal Server Error"))
          /\ UNCHANGED wallets
    /\ UNCHANGED <<users, transactions, blocks, deposit_processing, ml, now, pre>>

\* ------------------------------------------------------------ fraud scorer
Clamp(x, lo, hi) == IF x < lo THEN lo ELSE IF x > hi THEN hi ELSE x

\* hash(str(amount) + str(sender_freq) + str(hour)): some fixed function of the
\* string and of the salt of the process
PyHash(amount, sender_freq, hour) ==
    hash_seed * 53 + amount * 7 + sender_freq * 13 + hour * 3

\* for comparison: the amount tests taken in the opposite order
rule_based_score_reordered(amount, sender_freq, receiver_freq, hour) ==
    LET large == IF amount > 5000 THEN 100
                 ELSE IF amount > 10000 THEN 200
                 ELSE IF amount > 50000 THEN 350 ELSE 0
        round == IF amount > 0 /\ amount % 1000 = 0 THEN 50 ELSE 0
        sfreq == IF sender_freq > 10 THEN 150 ELSE IF sender_freq > 5 THEN 80 ELSE 0
        rfreq == IF receiver_freq > 10 THEN 150 ELSE IF receiver_freq > 5 THEN 80 ELSE 0
        night == IF hour < 6 \/ hour > 22 THEN 100 ELSE 0
        noise == ((PyHash(amount, sender_freq, hour) % 100) * 1000) \div 500
    IN  Clamp(large + round + sfreq + rfreq + night + noise, 0, 950)

\* _rule_based_score
rule_based_score(amount, sender_freq, receiver_freq, hour) ==
    LET large == IF amount > 50000 THEN 350
                 ELSE IF amount > 10000 THEN 200
                 ELSE IF amount > 5000 THEN 100 ELSE 0
        round == IF amount > 0 /\ amount % 1000 = 0 THEN 50 ELSE 0
        sfreq == IF sender_freq > 10 THEN 150 ELSE IF sender_freq > 5 THEN 80 ELSE 0
        rfreq == IF receiver_freq > 10 THEN 150 ELSE IF receiver_freq > 5 THEN 80 ELSE 0
        night == IF hour < 6 \/ hour > 22 THEN 100 ELSE 0
        noise == ((PyHash(amount, sender_freq, hour) % 100) * 1000) \div 500
    IN  Clamp(large + round + sfreq + rfreq + night + noise, 0, 950)

\* predict_fraud raises when _is_trained is set and _model is not fitted
PredictRaises == is_trained /\ model = "unfitted"

\* what decision_function may return: nothing is known of the fitted forest
Raws == IF is_trained /\ model # "None" THEN RawScores ELSE {0}

\* predict_fraud; raw is the model's decision_function value
predict_fraud(amount, sender_freq, receiver_freq, hour, raw) ==
    IF is_trained /\ model # "None"
    THEN Clamp(500 - raw, 0, 1000)
    ELSE rule_based_score(amount, sender_freq, receiver_freq, hour)

\* for comparison: the thresholds taken as exclusive bounds
get_status_label_exclusive(score) ==
    IF score <= WARNING_THRESHOLD THEN "Clear"
    ELSE IF score <= FRAUD_THRESHOLD THEN "Review"
    ELSE "Suspicious"

get_status_label(score) ==
    IF score < WARNING_THRESHOLD THEN "Clear"
    ELSE IF score < FRAUD_THRESHOLD THEN "Review"
    ELSE "Suspicious"

\* the arguments of the scorer: amounts around the tests of _rule_based_score,
\* frequencies around 5 and 10, hours around 6 and 22
ScoreAmounts == {5, 1000, 5000, 5001, 10000, 10001, 50000, 50001, 60000}
ScoreFreqs == {1, 5, 6, 10, 11}
ScoreHours == {5, 6, 14, 22, 23}

\* one call of predict_fraud, at any hour, and the label of its score
PredictFraud(p) ==
    /\ proc[p].pc = "idle"
    /\ ~PredictRaises
    /\ \E amount \in ScoreAmounts, sender_freq \in ScoreFreqs, receiver_freq \in ScoreFreqs,
          hour \in ScoreHours, raw \in Raws :
         LET fraud_score == predict_fraud(amount, sender_freq, receiver_freq, hour, raw)
         IN  /\ proc' = [proc EXCEPT ![p] =
                   [Idle EXCEPT !.op = "predict_fraud", !.pc = "done", !.amount = amount,
                                !.sender_freq = sender_freq,
                                !.receiver_freq = receiver_freq,
                                !.hour = hour, !.fraud_score = fraud_score]]
             /\ resp' = [resp EXCEPT ![p] =
                   [status |-> 200, error |-> "", transferStatus |-> "",
                    label |-> get_status_label(fraud_score)]]
    /\ UNCHANGED <<db, deposit_processing, ml, now, pre>>

\* _get_sender_freq / _get_receiver_freq and the two counts of transfer
get_sender_freq(name) ==
    Cardinality({i \in DOMAIN transactions : Lower(transactions[i].sender) = Lower(name)})
get_receiver_freq(name) ==
    Cardinality({i \in DOMAIN transactions : Lower(transactions[i].receiver) = Lower(name)})

\* a row of table transactions; the column defaults are those of models.py
Transaction(tx_id, sender, receiver, amount, fraud_score, status, transfer_status) ==
    [tx_id |-> tx_id, sender |-> sender, receiver |-> receiver, amount |-> amount,
     fraud_score |-> fraud_score, status |-> status, transfer_status |-> transfer_status,
     type |-> "transfer", payment_method |-> "", payment_id |-> ""]

\* ------------------------------------------------------------------ ledger
\* get_last_block: the row of greatest block_index, None (NoBlock) on an empty
\* table; among rows of equal index the database returns any
get_last_block ==
    IF blocks = <<>> THEN {NoBlock}
    ELSE {blocks[i] : i \in {k \in DOMAIN blocks :
                              \A j \in DOMAIN blocks :
                                  blocks[j].block_index <= blocks[k].block_index}}

\* for comparison: an append that links every block to the zero hash
add_block_unlinked(transaction_id, last, ts) ==
    LET new_index == IF last # NoBlock THEN last.block_index + 1 ELSE 0
    IN  [block_index |-> new_index, transaction_id |-> transaction_id,
         previous_hash |-> ZeroHash,
         current_hash |-> compute_hash(transaction_id, ZeroHash, ts, new_index),
         timestamp |-> ts]

\* add_block up to the commit: the Block built from the tail that was read
add_block(transaction_id, last, ts) ==
    LET prev_hash == IF last # NoBlock THEN last.current_hash ELSE ZeroHash
        new_index == IF last # NoBlock THEN last.block_index + 1 ELSE 0
    IN  [block_index |-> new_index, transaction_id |-> transaction_id,
         previous_hash |-> prev_hash,
         current_hash |-> compute_hash(transaction_id, prev_hash, ts, new_index),
         timestamp |-> ts]

\* get_chain: the rows ordered by block_index (insertion order among equals)
get_chain ==
    LET Before(i, j) == \/ blocks[i].block_index < blocks[j].block_index
                        \/ blocks[i].block_index = blocks[j].block_index /\ i < j
        Rank(i) == 1 + Cardinality({j \in DOMAIN blocks : Before(j, i)})
    IN  [k \in DOMAIN blocks |-> blocks[CHOOSE i \in DOMAIN blocks : Rank(i) = k]]

\* the loop of validate_chain from position first of the chain on (positions
\* count from 1, so that range(1, len(blocks)) is 2..Len(chain)): one entry per
\* mismatch, with the block_index, the expected and the actual hash of the message
validate_scan(chain, first) ==
    LET RECURSIVE scan(_, _)
        scan(i, errors) ==
            IF i > Len(chain) THEN errors
            ELSE IF chain[i].previous_hash # chain[i - 1].current_hash
            THEN scan(i + 1, Append(errors, [block |-> chain[i].block_index,
                                             expected |-> chain[i - 1].current_hash,
                                             got |-> chain[i].previous_hash]))
            ELSE scan(i + 1, errors)
    IN  scan(first, <<>>)

\* for comparison: a loop that begins one block late
validate_chain_late ==
    LET chain == get_chain
        errors == validate_scan(chain, 3)
    IN  [valid |-> Len(errors) = 0, errors |-> errors, totalBlocks |-> Len(chain)]

\* validate_chain
validate_chain ==
    LET chain == get_chain
        errors == validate_scan(chain, 2)
    IN  [valid |-> Len(errors) = 0, errors |-> errors, totalBlocks |-> Len(chain)]

\* for comparison: a validation that rewrites the hashes it finds mismatched
GetBlockchain_repairing(p, before) ==
    /\ proc[p].pc = "idle"
    /\ pre' = [pre EXCEPT ![p] = before]
    /\ proc' = [proc EXCEPT ![p] = [Idle EXCEPT !.op = "get_blockchain", !.pc = "done"]]
    /\ resp' = [resp EXCEPT ![p] = [status |-> 200, error |-> "", transferStatus |-> "",
                                    chain |-> get_chain, validation |-> validate_chain]]
    /\ blocks' = [k \in DOMAIN blocks |->
                    IF k > 1 /\ blocks[k].previous_hash # blocks[k - 1].current_hash
                    THEN [blocks[k] EXCEPT !.previous_hash = blocks[k - 1].current_hash]
                    ELSE blocks[k]]
    /\ UNCHANGED <<users, wallets, transactions, deposit_processing, ml, now>>

\* routes.get_blockchain: get_chain, then validate_chain, in one session
GetBlockchain(p, before) ==
    /\ proc[p].pc = "idle"
    /\ pre' = [pre EXCEPT ![p] = before]
    /\ proc' = [proc EXCEPT ![p] = [Idle EXCEPT !.op = "get_blockchain", !.pc = "done"]]
    /\ resp' = [resp EXCEPT ![p] = [status |-> 200, error |-> "", transferStatus |-> "",
                                    chain |-> get_chain, validation |-> validate_chain]]
    /\ UNCHANGED <<db, deposit_processing, ml, now>>

\* the hashes a row of table blockchain can be given by whoever writes to the
\* database directly: 64 zeros, or a hash that occurs in the table
StoredHashes == {ZeroHash} \cup {blocks[j].current_hash : j \in DOMAIN blocks}

\* the column previous_hash of one row is changed in the database, outside the
\* application
Corrupt ==
    /\ \E k \in DOMAIN blocks, h \in StoredHashes :
         /\ h # blocks[k].previous_hash
         /\ blocks' = [blocks EXCEPT ![k].previous_hash = h]
    /\ UNCHANGED <<users, wallets, transactions, deposit_processing, ml, now,
                   proc, resp, pre>>

\* ----------------------------------------------------------------- transfer
\* line 145, and for comparison the handler without this test
SelfTransfer_never(wallet_id, receiver_wallet_id) == FALSE
SelfTransfer(wallet_id, receiver_wallet_id) == wallet_id = receiver_wallet_id

\* line 149, and for comparison the handler without this test, and the test
\* that also refuses the whole balance
InsufficientBalance_never(balance, amount) == FALSE
InsufficientBalance_inclusive(balance, amount) == balance <= amount
InsufficientBalance(balance, amount) == balance < amount

TransferBegin(p, callers, receivers, amounts, before) ==
    /\ proc[p].pc = "idle"
    /\ \E user \in callers, receiver_wallet_id \in receivers, amount \in amounts :
        LET me == [Idle EXCEPT !.op = "transfer", !.user = user, !.amount = amount,
                               !.receiver_wallet_id = receiver_wallet_id]
            Reject(code, err) ==
                /\ proc' = [proc EXCEPT ![p] = [me EXCEPT !.pc = "done"]]
                /\ resp' = [resp EXCEPT ![p] = Response(code, err)]
        IN  /\ pre' = [pre EXCEPT ![p] = before]
            /\ IF receiver_wallet_id = MissingWalletId
               THEN Reject(400, "Receiver wallet ID is required")
               ELSE IF amount <= 0
               THEN Reject(400, "amount must be positive")
               ELSE IF ~HasWallet(user)
               THEN Reject(404, "Sender wallet not found")
               ELSE IF SelfTransfer(wallets[WalletIdx(user)].wallet_id, receiver_wallet_id)
               THEN Reject(400, "Cannot transfer to your own wallet")
               ELSE IF InsufficientBalance(Balance(user), amount)
               THEN Reject(400, "Insufficient balance")
               ELSE IF ~HasWalletId(receiver_wallet_id)
               THEN Reject(404, "Receiver wallet not found")
               ELSE LET receiver_wallet == wallets[WalletIdxById(receiver_wallet_id)]
                        sender_name == IF user \in users THEN Email(user) ELSE "Unknown"
                        receiver_name == IF receiver_wallet.user_id \in users
                                         THEN Email(receiver_wallet.user_id) ELSE "Unknown"
                    IN  /\ RoomForTx
                        /\ RoomForCredit(receiver_wallet.user_id, amount)
                        /\ proc' = [proc EXCEPT ![p] =
                              [me EXCEPT !.pc = "tr_commit",
                                         !.bal = Balance(user),
                                         !.rbal = receiver_wallet.balance,
                                         !.ruser = receiver_wallet.user_id,
                                         !.sender = sender_name,
                                         !.receiver = receiver_name,
                                         !.sender_freq = get_sender_freq(sender_name) + 1,
                                         !.receiver_freq = get_receiver_freq(receiver_name) + 1,
                                         !.tx_id = <<"TX", now>>]]
                        /\ UNCHANGED resp
    /\ UNCHANGED <<db, deposit_processing, ml, now>>

\* lines 167-194: debit, credit, score, record insert, commit
TransferCommit(p, storage_fails) ==
    /\ proc[p].pc = "tr_commit"
    /\ \/ /\ ~HasTx(proc[p].tx_id)
          /\ ~PredictRaises
          /\ \E raw \in Raws :
               LET fraud_score == predict_fraud(proc[p].amount, proc[p].sender_freq,
                                                proc[p].receiver_freq, HourOf(now), raw)
               IN  /\ transactions' = Append(transactions,
                          Transaction(proc[p].tx_id, proc[p].sender, proc[p].receiver,
                                      proc[p].amount, fraud_score,
                                      get_status_label(fraud_score), "Completed"))
                   /\ proc' = [proc EXCEPT ![p].pc = "tr_block_read",
                                           ![p].fraud_score = fraud_score]
          /\ wallets' = [wallets EXCEPT
                 ![WalletIdx(proc[p].user)].balance =
                     flush_balance(proc[p].bal, Balance(proc[p].user), -proc[p].amount),
                 ![WalletIdx(proc[p].ruser)].balance =
                     flush_balance(proc[p].rbal, Balance(proc[p].ruser), proc[p].amount)]
       \/ /\ HasTx(proc[p].tx_id) \/ PredictRaises \/ storage_fails
          /\ proc' = [proc EXCEPT ![p].pc = "tr_except", ![p].fault = "commit"]
          /\ UNCHANGED <<wallets, transactions>>
    /\ UNCHANGED <<users, blocks, deposit_processing, ml, now, resp, pre>>

\* add_block, lines 32-46
TransferBlockRead(p) ==
    /\ proc[p].pc = "tr_block_read"
    /\ \E last \in get_last_block :
         proc' = [proc EXCEPT ![p].pc = "tr_block_commit",
                              ![p].block = add_block(proc[p].tx_id, last, now)]
    /\ UNCHANGED <<db, deposit_processing, ml, now, resp, pre>>

\* add_block, lines 47-50, and the response
TransferBlockCommit(p, storage_fails) ==
    /\ proc[p].pc = "tr_block_commit"
    /\ \/ /\ blocks' = Append(blocks, proc[p].block)
          /\ Return(p, TransferResponse(200, "", "Completed"))
       \/ /\ storage_fails
          /\ proc' = [proc EXCEPT ![p].pc = "tr_except", ![p].fault = "ledger"]
          /\ UNCHANGED <<blocks, resp>>
    /\ UNCHANGED <<users, wallets, transactions, deposit_processing, ml, now, pre>>

\* for comparison: an except branch that marks the record of the attempt Failed
\* when it finds one
TransferExcept_marking(p, storage_fails) ==
    /\ proc[p].pc = "tr_except"
    /\ \/ /\ ~HasTx(proc[p].tx_id)
          /\ transactions' = Append(transactions,
                 Transaction(proc[p].tx_id, proc[p].sender, proc[p].receiver,
                             proc[p].amount, 0, "Clear", "Failed"))
       \/ /\ HasTx(proc[p].tx_id)
          /\ transactions' = [i \in DOMAIN transactions |->
                 IF transactions[i].tx_id = proc[p].tx_id
                 THEN [transactions[i] EXCEPT !.transfer_status = "Failed"]
                 ELSE transactions[i]]
       \/ /\ storage_fails
          /\ UNCHANGED transactions
    /\ Return(p, TransferResponse(500, "Transfer failed. Please try again.", "Failed"))
    /\ UNCHANGED <<users, wallets, blocks, deposit_processing, ml, now, pre>>

\* lines 208-229: rollback, then the Failed record under the same tx_id; its
\* own failure (the unique key on tx_id, the storage) is swallowed
TransferExcept(p, storage_fails) ==
    /\ proc[p].pc = "tr_except"
    /\ \/ /\ ~HasTx(proc[p].tx_id)
          /\ transactions' = Append(transactions,
                 Transaction(proc[p].tx_id, proc[p].sender, proc[p].receiver,
                             proc[p].amount, 0, "Clear", "Failed"))
       \/ /\ HasTx(proc[p].tx_id) \/ storage_fails
          /\ UNCHANGED transactions
    /\ Return(p, TransferResponse(500, "Transfer failed. Please try again.", "Failed"))
    /\ UNCHANGED <<users, wallets, blocks, deposit_processing, ml, now, pre>>

\* ------------------------------------------------------------- mock_deposit
\* for comparison: one key for the deposits of every user
lock_key_shared(user_id) == <<"deposit", 0>>

\* line 262
lock_key(user_id) == <<"deposit", user_id>>

\* for comparison: a test of the payment method that lets every method through
ValidMethods_any == {"upi", "card", "netbanking"} \cup PaymentMethods

ValidMethods == {"upi", "card", "netbanking"}

\* for comparison: a finally clause that keeps the key
Release_never(user_id) == deposit_processing

\* the finally clause of mock_deposit
Release(user_id) == deposit_processing \ {lock_key(user_id)}

\* lines 238-264: validation and the test of the guard
MockDepositBegin(p, callers, amounts, methods, before) ==
    /\ proc[p].pc = "idle"
    /\ \E user \in callers, amount \in amounts, payment_method \in methods :
        LET me == [Idle EXCEPT !.op = "mock_deposit", !.user = user, !.amount = amount,
                               !.payment_method = payment_method]
            Reject(code, err) ==
                /\ proc' = [proc EXCEPT ![p] = [me EXCEPT !.pc = "done"]]
                /\ resp' = [resp EXCEPT ![p] = Response(code, err)]
        IN  /\ pre' = [pre EXCEPT ![p] = before]
            /\ IF amount < MinDeposit
               THEN Reject(400, "Minimum deposit amount")
               ELSE IF payment_method \notin ValidMethods
               THEN Reject(400, "Invalid payment method")
               ELSE IF lock_key(user) \in deposit_processing
               THEN Reject(429, "A deposit is already being processed")
               ELSE /\ RoomForTx
                    /\ user \in UserIds => RoomForCredit(user, amount)
                    /\ proc' = [proc EXCEPT ![p] = [me EXCEPT !.pc = "md_lock"]]
                    /\ UNCHANGED resp
    /\ UNCHANGED <<db, deposit_processing, ml, now>>

\* line 265
MockDepositLock(p) ==
    /\ proc[p].pc = "md_lock"
    /\ deposit_processing' = deposit_processing \cup {lock_key(proc[p].user)}
    /\ proc' = [proc EXCEPT ![p].pc = "md_read"]
    /\ UNCHANGED <<db, ml, now, resp, pre>>

\* lines 268-276
MockDepositRead(p) ==
    /\ proc[p].pc = "md_read"
    /\ IF proc[p].user \in UserIds /\ HasWallet(proc[p].user)
       THEN /\ proc' = [proc EXCEPT ![p].pc = "md_commit",
                                    ![p].bal = Balance(proc[p].user)]
            /\ UNCHANGED <<resp, deposit_processing>>
       ELSE IF proc[p].user \notin users
       THEN /\ Return(p, Response(404, "User not found"))
            /\ deposit_processing' = Release(proc[p].user)
       ELSE /\ proc' = [proc EXCEPT ![p].pc = "md_create"]
            /\ UNCHANGED <<resp, deposit_processing>>
    /\ UNCHANGED <<db, ml, now, pre>>

\* line 273, create_wallet_for_user
MockDepositCreate(p, storage_fails) ==
    /\ proc[p].pc = "md_create"
    /\ \/ /\ UniqueUserId(proc[p].user)
          /\ wallets' = create_wallet_for_user(proc[p].user)
          /\ proc' = [proc EXCEPT ![p].pc = "md_refresh"]
          /\ UNCHANGED <<resp, deposit_processing>>
       \/ /\ HasWallet(proc[p].user) \/ storage_fails
          /\ Return(p, Response(500, "Deposit failed. Please try again."))
          /\ deposit_processing' = Release(proc[p].user)
          /\ UNCHANGED wallets
    /\ UNCHANGED <<users, transactions, blocks, ml, now, pre>>

\* the wallet row, expired by the commit of create_wallet_for_user, is loaded again
MockDepositRefresh(p) ==
    /\ proc[p].pc = "md_refresh"
    /\ proc' = [proc EXCEPT ![p].pc = "md_commit", ![p].bal = Balance(proc[p].user)]
    /\ UNCHANGED <<db, deposit_processing, ml, now, resp, pre>>

\* for comparison: a deposit that retrains the model when its record brings the
\* count to a multiple of 10, as create_transaction does
MockDepositCommit_retraining(p, storage_fails) ==
    /\ proc[p].pc = "md_commit"
    /\ \/ /\ ~HasTx(<<"DEP", now>>)
          /\ \E pay_id \in PayIds :
               transactions' = Append(transactions,
                   [Transaction(<<"DEP", now>>, "Bank Deposit", Email(proc[p].user),
                                proc[p].amount, 0, "Clear", "Completed")
                    EXCEPT !.type = "deposit",
                           !.payment_method = proc[p].payment_method,
                           !.payment_id = pay_id])
          /\ wallets' = [wallets EXCEPT ![WalletIdx(proc[p].user)].balance =
                 flush_balance(proc[p].bal, Balance(proc[p].user), proc[p].amount)]
          /\ proc' = [proc EXCEPT ![p].pc = "done", ![p].tx_id = <<"DEP", now>>]
          /\ resp' = [resp EXCEPT ![p] = Response(200, "")]
          /\ IF (Len(transactions) + 1) % RetrainEvery = 0
             THEN model' = "fitted" /\ is_trained' = TRUE /\ UNCHANGED hash_seed
             ELSE UNCHANGED ml
       \/ /\ HasTx(<<"DEP", now>>) \/ storage_fails
          /\ Return(p, Response(500, "Deposit failed. Please try again."))
          /\ UNCHANGED <<wallets, transactions, ml>>
    /\ deposit_processing' = Release(proc[p].user)
    /\ UNCHANGED <<users, blocks, now, pre>>

\* lines 279-318, after time.sleep(2)
MockDepositCommit(p, storage_fails) ==
    /\ proc[p].pc = "md_commit"
    /\ \/ /\ ~HasTx(<<"DEP", now>>)
          /\ \E pay_id \in PayIds :
               transactions' = Append(transactions,
                   [Transaction(<<"DEP", now>>, "Bank Deposit", Email(proc[p].user),
                                proc[p].amount, 0, "Clear", "Completed")
                    EXCEPT !.type = "deposit",
                           !.payment_method = proc[p].payment_method,
                           !.payment_id = pay_id])
          /\ wallets' = [wallets EXCEPT ![WalletIdx(proc[p].user)].balance =
                 flush_balance(proc[p].bal, Balance(proc[p].user), proc[p].amount)]
          /\ proc' = [proc EXCEPT ![p].pc = "done", ![p].tx_id = <<"DEP", now>>]
          /\ resp' = [resp EXCEPT ![p] = Response(200, "")]
       \/ /\ HasTx(<<"DEP", now>>) \/ storage_fails
          /\ Return(p, Response(500, "Deposit failed. Please try again."))
          /\ UNCHANGED <<wallets, transactions>>
    /\ deposit_processing' = Release(proc[p].user)
    /\ UNCHANGED <<users, blocks, ml, now, pre>>

\* ------------------------------------------------------- create_transaction
RetrainMinRecords == 10

\* for comparison: a train_model that clears _is_trained while the new forest
\* is not fitted yet
train_model_unflagging(n) ==
    IF n < MIN_SAMPLES_TO_TRAIN THEN <<model, FALSE>> ELSE <<"unfitted", FALSE>>

\* train_model on n samples up to the assignment of the new forest to _model
\* (line 56), before it is fitted: the new (_model, _is_trained)
train_model(n) ==
    IF n < MIN_SAMPLES_TO_TRAIN THEN <<model, FALSE>> ELSE <<"unfitted", is_trained>>

\* _retrain_model, up to the same point
retrain_model ==
    IF Len(transactions) < RetrainMinRecords THEN <<model, is_trained>>
    ELSE train_model(Len(transactions))

\* whether _retrain_model has a forest to fit
Fits ==
    /\ Len(transactions) % RetrainEvery = 0
    /\ Len(transactions) >= RetrainMinRecords
    /\ Len(transactions) >= MIN_SAMPLES_TO_TRAIN

\* lines 70-98: validation, frequencies, score, tx_id
CreateTransactionBegin(p, amounts, before) ==
    /\ proc[p].pc = "idle"
    /\ \E parties \in CtParties, amount \in amounts, raw \in Raws :
        LET sender == parties[1]
            receiver == parties[2]
            me == [Idle EXCEPT !.op = "create_transaction", !.amount = amount,
                               !.sender = sender, !.receiver = receiver]
            sender_freq == get_sender_freq(sender) + 1
            receiver_freq == get_receiver_freq(receiver) + 1
        IN  /\ pre' = [pre EXCEPT ![p] = before]
            /\ IF amount <= 0
               THEN /\ proc' = [proc EXCEPT ![p] = [me EXCEPT !.pc = "done"]]
                    /\ resp' = [resp EXCEPT ![p] = Response(400, "amount must be positive")]
               ELSE IF PredictRaises
               THEN /\ proc' = [proc EXCEPT ![p] = [me EXCEPT !.pc = "done",
                                                             !.fault = "predict"]]
                    /\ resp' = [resp EXCEPT ![p] = Response(500, "Internal Server Error")]
               ELSE /\ RoomForTx
                    /\ proc' = [proc EXCEPT ![p] =
                          [me EXCEPT !.pc = "ct_commit",
                                     !.sender_freq = sender_freq,
                                     !.receiver_freq = receiver_freq,
                                     !.fraud_score = predict_fraud(amount, sender_freq,
                                                          receiver_freq, HourOf(now), raw),
                                     !.tx_id = <<"TX", now>>]]
                    /\ UNCHANGED resp
    /\ UNCHANGED <<db, deposit_processing, ml, now>>

\* lines 99-108
CreateTransactionCommit(p, storage_fails) ==
    /\ proc[p].pc = "ct_commit"
    /\ \/ /\ ~HasTx(proc[p].tx_id)
          /\ transactions' = Append(transactions,
                 Transaction(proc[p].tx_id, proc[p].sender, proc[p].receiver,
                             proc[p].amount, proc[p].fraud_score,
                             get_status_label(proc[p].fraud_score), "Completed"))
          /\ proc' = [proc EXCEPT ![p].pc = "ct_block_read"]
          /\ UNCHANGED resp
       \/ /\ HasTx(proc[p].tx_id) \/ storage_fails
          /\ proc' = [proc EXCEPT ![p].pc = "done", ![p].fault = "commit"]
          /\ resp' = [resp EXCEPT ![p] = Response(500, "Internal Server Error")]
          /\ UNCHANGED transactions
    /\ UNCHANGED <<users, wallets, blocks, deposit_processing, ml, now, pre>>

\* line 111, add_block lines 32-46
CreateTransactionBlockRead(p) ==
    /\ proc[p].pc = "ct_block_read"
    /\ \E last \in get_last_block :
         proc' = [proc EXCEPT ![p].pc = "ct_block_commit",
                              ![p].block = add_block(proc[p].tx_id, last, now)]
    /\ UNCHANGED <<db, deposit_processing, ml, now, resp, pre>>

\* line 111, add_block lines 47-50
CreateTransactionBlockCommit(p, storage_fails) ==
    /\ proc[p].pc = "ct_block_commit"
    /\ \/ /\ blocks' = Append(blocks, proc[p].block)
          /\ proc' = [proc EXCEPT ![p].pc = "ct_retrain"]
          /\ UNCHANGED resp
       \/ /\ storage_fails
          /\ proc' = [proc EXCEPT ![p].pc = "done", ![p].fault = "ledger"]
          /\ resp' = [resp EXCEPT ![p] = Response(500, "Internal Server Error")]
          /\ UNCHANGED blocks
    /\ UNCHANGED <<users, wallets, transactions, deposit_processing, ml, now, pre>>

\* lines 113-116, with _retrain_model and train_model up to line 61; a query
\* that fails (line 114, line 30) raises out of the handler
CreateTransactionRetrain(p, storage_fails) ==
    /\ proc[p].pc = "ct_retrain"
    /\ \/ /\ IF Len(transactions) % RetrainEvery = 0
             THEN /\ model' = retrain_model[1]
                  /\ is_trained' = retrain_model[2]
                  /\ UNCHANGED hash_seed
             ELSE UNCHANGED ml
          /\ proc' = [proc EXCEPT ![p].pc = IF Fits THEN "ct_fit" ELSE "done"]
          /\ resp' = [resp EXCEPT ![p] = IF Fits THEN @ ELSE Response(201, "")]
       \/ /\ storage_fails
          /\ proc' = [proc EXCEPT ![p].pc = "done", ![p].fault = "retrain"]
          /\ resp' = [resp EXCEPT ![p] = Response(500, "Internal Server Error")]
          /\ UNCHANGED ml
    /\ UNCHANGED <<db, deposit_processing, now, pre>>

\* train_model lines 62-64, then lines 118-122: the forest is fitted, the flag
\* set, the response returned
CreateTransactionFit(p) ==
    /\ proc[p].pc = "ct_fit"
    /\ model' = "fitted"
    /\ is_trained' = TRUE
    /\ Return(p, Response(201, ""))
    /\ UNCHANGED <<db, deposit_processing, hash_seed, now, pre>>

\* ----------------------------------------------------------------- register
\* auth.register, lines 99-109
RegisterBegin(p, storage_fails, before) ==
    /\ proc[p].pc = "idle"
    /\ \E u \in UserIds :
        LET me == [Idle EXCEPT !.op = "register", !.user = u]
        IN  /\ pre' = [pre EXCEPT ![p] = before]
            /\ IF u \in users
               THEN /\ proc' = [proc EXCEPT ![p] = [me EXCEPT !.pc = "done"]]
                    /\ resp' = [resp EXCEPT ![p] = Response(409, "account exists")]
                    /\ UNCHANGED users
               ELSE \/ /\ users' = users \cup {u}
                       /\ proc' = [proc EXCEPT ![p] = [me EXCEPT !.pc = "reg_wallet"]]
                       /\ UNCHANGED resp
                    \/ /\ storage_fails
                       /\ proc' = [proc EXCEPT ![p] = [me EXCEPT !.pc = "done"]]
                       /\ resp' = [resp EXCEPT ![p] = Response(500, "Internal Server Error")]
                       /\ UNCHANGED users
    /\ UNCHANGED <<wallets, transactions, blocks, deposit_processing, ml, now>>

\* auth.register, lines 112-122, create_wallet_for_user
RegisterWallet(p, storage_fails) ==
    /\ proc[p].pc = "reg_wallet"
    /\ \/ /\ wallets' = IF HasWallet(proc[p].user) THEN wallets
                        ELSE create_wallet_for_user(proc[p].user)
          /\ Return(p, Response(201, ""))
       \/ /\ ~HasWallet(proc[p].user)
          /\ storage_fails
          /\ Return(p, Response(500, "Internal Server Error"))
          /\ UNCHANGED wallets
    /\ UNCHANGED <<users, transactions, blocks, deposit_processing, ml, now, pre>>

\* ------------------------------------------------------------ specifications
\* the steps of each handler after its first; storage_fails tells whether the
\* database may fail a statement for a reason of its own
AddFunds(p, storage_fails) ==
    \/ AddFundsCreate(p, storage_fails)
    \/ AddFundsRefresh(p)
    \/ AddFundsCommit(p, storage_fails)

Transfer(p, storage_fails) ==
    \/ TransferCommit(p, storage_fails)
    \/ TransferBlockRead(p)
    \/ TransferBlockCommit(p, storage_fails)
    \/ TransferExcept(p, storage_fails)

MockDeposit(p, storage_fails) ==
    \/ MockDepositLock(p)
    \/ MockDepositRead(p)
    \/ MockDepositCreate(p, storage_fails)
    \/ MockDepositRefresh(p)
    \/ MockDepositCommit(p, storage_fails)

CreateTransaction(p, storage_fails) ==
    \/ CreateTransactionCommit(p, storage_fails)
    \/ CreateTransactionBlockRead(p)
    \/ CreateTransactionBlockCommit(p, storage_fails)
    \/ CreateTransactionRetrain(p, storage_fails)

Register(p, storage_fails, before) ==
    \/ RegisterBegin(p, storage_fails, before)
    \/ RegisterWallet(p, storage_fails)

WalletIds == {generate_wallet_id(u, Email(u)) : u \in UserIds}
PosAmounts == {a \in Amounts : a > 0}

\* every request, valid or not, served one at a time
Next ==
    \/ Tick
    \/ Register(1, TRUE, Snapshot)
    \/ AddFundsBegin(1, Callers, Amounts, Snapshot)
    \/ AddFunds(1, TRUE)
    \/ TransferBegin(1, Callers, ReceiverIds, Amounts, Snapshot)
    \/ Transfer(1, TRUE)
    \/ MockDepositBegin(1, Callers, Amounts, PaymentMethods, Snapshot)
    \/ MockDeposit(1, TRUE)
    \/ CreateTransactionBegin(1, Amounts, Snapshot)
    \/ CreateTransaction(1, TRUE)
    \/ Finish(1)

Spec == Init /\ [][Next]_vars

\* transfers of every kind, valid or not, with the registrations and the
\* add-funds requests that make them possible, served one at a time
NextTransfer ==
    \/ Tick
    \/ Register(1, TRUE, Snapshot)
    \/ AddFundsBegin(1, Callers, Amounts, Snapshot)
    \/ AddFunds(1, TRUE)
    \/ TransferBegin(1, Callers, ReceiverIds, Amounts, Snapshot)
    \/ Transfer(1, TRUE)
    \/ Finish(1)

SpecTransfer == Init /\ [][NextTransfer]_vars

\* the requests that append to the ledger, transfers and created transactions,
\* served one at a time, with the valid registrations and add-funds requests
\* that make the transfers possible
NextLedger ==
    \/ Tick
    \/ Register(1, FALSE, Snapshot)
    \/ AddFundsBegin(1, UserIds, PosAmounts, Snapshot)
    \/ AddFundsCommit(1, FALSE)
    \/ TransferBegin(1, UserIds, WalletIds, PosAmounts, Snapshot)
    \/ Transfer(1, TRUE)
    \/ CreateTransactionBegin(1, PosAmounts, Snapshot)
    \/ CreateTransaction(1, TRUE)
    \/ Finish(1)

SpecLedger == Init /\ [][NextLedger]_vars

\* the tables transactions and blockchain after n generic transactions of 5
\* between the first pair of parties, served one per millisecond, the last one
\* a millisecond before time 0, by a server whose model was never trained
PastTxId(k, n) == <<"TX", k - n - 1>>

PastRecords(n) ==
    [k \in 1..n |->
        LET fraud_score == rule_based_score(5, k, k, HourOf(k - n - 1))
        IN  Transaction(PastTxId(k, n), "Admin@SecureChain.com", "bob@x.io", 5,
                        fraud_score, get_status_label(fraud_score), "Completed")]

PastBlocks(n) ==
    LET RECURSIVE chain(_)
        chain(k) ==
            IF k = 0 THEN <<>>
            ELSE LET c == chain(k - 1)
                 IN  Append(c, add_block(PastTxId(k, n),
                                         IF k = 1 THEN NoBlock ELSE c[k - 1],
                                         k - n - 1))
    IN  chain(n)

\* the server is started on a database that holds both accounts, each with its
\* wallet, and the n records and blocks of an earlier run
InitHistory(n) ==
    /\ users = UserIds
    /\ wallets = [u \in UserIds |-> [user_id |-> u,
                                     wallet_id |-> generate_wallet_id(u, Email(u)),
                                     balance |-> 0]]
    /\ deposit_processing = {}
    /\ model = "None"
    /\ is_trained = FALSE
    /\ now = 0
    /\ hash_seed \in HashSeeds
    /\ transactions = PastRecords(n)
    /\ blocks = PastBlocks(n)
    /\ proc = [p \in Procs |-> Idle]
    /\ resp = [p \in Procs |-> NoResp]
    /\ pre = [p \in Procs |-> NoPre]

\* every operation on the wallets and on the ledger, served one at a time within
\* one millisecond by a database that fails no statement of an add-funds or
\* deposit request, while rows of the ledger are changed behind the application
NextAudit ==
    \/ AddFundsBegin(1, {AdminUser}, {5}, NoPre)
    \/ AddFundsCommit(1, FALSE)
    \/ TransferBegin(1, {AdminUser}, WalletIds, {5}, NoPre)
    \/ Transfer(1, TRUE)
    \/ CreateTransactionBegin(1, {5}, NoPre)
    \/ CreateTransaction(1, TRUE)
    \/ MockDepositBegin(1, {AdminUser}, {MinDeposit}, {"upi"}, NoPre)
    \/ MockDepositLock(1)
    \/ MockDepositRead(1)
    \/ MockDepositCommit(1, FALSE)
    \/ GetBlockchain(1, Snapshot)
    \/ Corrupt
    \/ Finish(1)

\* the ledger holds two blocks when the server starts
SpecAudit == InitHistory(2) /\ [][NextAudit]_vars

\* the scorer as a function of its arguments and of the state of the model:
\* never trained, or trained and fitted
InitScorer ==
    /\ users = {AdminUser}
    /\ wallets = <<[user_id |-> AdminUser,
                    wallet_id |-> generate_wallet_id(AdminUser, Email(AdminUser)),
                    balance |-> 0]>>
    /\ transactions = <<>>
    /\ blocks = <<>>
    /\ deposit_processing = {}
    /\ \E trained \in BOOLEAN :
         /\ model = IF trained THEN "fitted" ELSE "None"
         /\ is_trained = trained
    /\ now = 0
    /\ hash_seed \in HashSeeds
    /\ proc = [p \in Procs |-> Idle]
    /\ resp = [p \in Procs |-> NoResp]
    /\ pre = [p \in Procs |-> NoPre]

NextScorer ==
    \/ PredictFraud(1)
    \/ Finish(1)

SpecScorer == InitScorer /\ [][NextScorer]_vars

\* the requests that create value, add-funds and deposits, valid or not, with
\* the registrations, served one at a time
NextFunds ==
    \/ Tick
    \/ Register(1, TRUE, Snapshot)
    \/ AddFundsBegin(1, Callers, Amounts, Snapshot)
    \/ AddFunds(1, TRUE)
    \/ MockDepositBegin(1, Callers, Amounts, PaymentMethods, Snapshot)
    \/ MockDeposit(1, TRUE)
    \/ Finish(1)

SpecFunds == Init /\ [][NextFunds]_vars

\* the requests that insert records, and the add-funds requests that make the
\* transfers possible, served one at a time, by a database that fails no
\* statement of a transfer or of a created transaction but for a unique key, by
\* a server started on a history one record short of the training threshold
NextHistory ==
    \/ Tick
    \/ AddFundsBegin(1, {AdminUser}, {5}, NoPre)
    \/ AddFundsCommit(1, FALSE)
    \/ TransferBegin(1, {AdminUser}, WalletIds, {5}, NoPre)
    \/ Transfer(1, FALSE)
    \/ CreateTransactionBegin(1, {5}, NoPre)
    \/ CreateTransaction(1, FALSE)
    \/ CreateTransactionFit(1)
    \/ MockDepositBegin(1, {AdminUser}, {MinDeposit}, {"upi"}, NoPre)
    \/ MockDepositLock(1)
    \/ MockDepositRead(1)
    \/ MockDepositCommit(1, TRUE)
    \/ Finish(1)

SpecHistory == InitHistory(MIN_SAMPLES_TO_TRAIN - 1) /\ [][NextHistory]_vars

\* the table transactions after n generic transactions of which those past the
\* training threshold were scored by the fitted forest, all with the value raw
TrainedRecords(n, raw) ==
    [k \in 1..n |->
        LET fraud_score == IF k <= MIN_SAMPLES_TO_TRAIN
                           THEN rule_based_score(5, k, k, HourOf(k - n - 1))
                           ELSE Clamp(500 - raw, 0, 1000)
        IN  Transaction(PastTxId(k, n), "Admin@SecureChain.com", "bob@x.io", 5,
                        fraud_score, get_status_label(fraud_score), "Completed")]

\* the server has served n generic transactions, the tenth of which trained the
\* model, the later ones scored from a decision_function value in raws; no
\* request is in flight
InitTrained(n, raws) ==
    /\ users = UserIds
    /\ wallets = [u \in UserIds |-> [user_id |-> u,
                                     wallet_id |-> generate_wallet_id(u, Email(u)),
                                     balance |-> 0]]
    /\ deposit_processing = {}
    /\ model = "fitted"
    /\ is_trained = TRUE
    /\ now = 0
    /\ hash_seed \in HashSeeds
    /\ \E raw \in raws : transactions = TrainedRecords(n, raw)
    /\ blocks = PastBlocks(n)
    /\ proc = [p \in Procs |-> Idle]
    /\ resp = [p \in Procs |-> NoResp]
    /\ pre = [p \in Procs |-> NoPre]

\* generic transactions served concurrently by a server whose model is trained
\* and whose history is one record short of the next retraining
NextRetrain ==
    \/ Tick
    \/ \E p \in Procs :
        \/ CreateTransactionBegin(p, {5}, NoPre)
        \/ CreateTransaction(p, TRUE)
        \/ CreateTransactionFit(p)
        \/ Finish(p)

SpecRetrain == InitTrained(2 * RetrainEvery - 1, {100}) /\ [][NextRetrain]_vars

\* the requests that create a wallet when the caller has none (registration,
\* get-wallet, add-funds of 5, deposits of 10), served concurrently
NextAccounts ==
    \E p \in Procs :
        \/ Register(p, TRUE, NoPre)
        \/ GetWalletBegin(p, Callers, NoPre)
        \/ GetWalletCreate(p, TRUE)
        \/ AddFundsBegin(p, Callers, {5}, NoPre)
        \/ AddFunds(p, TRUE)
        \/ MockDepositBegin(p, Callers, {MinDeposit}, {"upi"}, NoPre)
        \/ MockDeposit(p, TRUE)
        \/ Finish(p)

SpecAccounts == Init /\ [][NextAccounts]_vars

\* deposits of 10 by the first holder, transfers of 5 out of them and generic
\* transactions of 5, served one at a time by a server whose model is trained
\* and whose history is one record short of the next retraining
NextTrained ==
    \/ Tick
    \/ TransferBegin(1, {AdminUser}, WalletIds, {5}, NoPre)
    \/ Transfer(1, TRUE)
    \/ CreateTransactionBegin(1, {5}, NoPre)
    \/ CreateTransaction(1, TRUE)
    \/ CreateTransactionFit(1)
    \/ MockDepositBegin(1, {AdminUser}, {MinDeposit}, {"upi"}, NoPre)
    \/ MockDepositLock(1)
    \/ MockDepositRead(1)
    \/ MockDepositCommit(1, TRUE)
    \/ Finish(1)

SpecTrained == InitTrained(2 * RetrainEvery - 1, {100}) /\ [][NextTrained]_vars

\* both accounts registered, each with its wallet
InitRegistered ==
    /\ users = UserIds
    /\ wallets = [u \in UserIds |-> [user_id |-> u,
                                     wallet_id |-> generate_wallet_id(u, Email(u)),
                                     balance |-> 0]]
    /\ transactions = <<>>
    /\ blocks = <<>>
    /\ deposit_processing = {}
    /\ model = "None"
    /\ is_trained = FALSE
    /\ now = 0
    /\ hash_seed \in HashSeeds
    /\ proc = [p \in Procs |-> Idle]
    /\ resp = [p \in Procs |-> NoResp]
    /\ pre = [p \in Procs |-> NoPre]

\* wallet requests of the two account holders, served concurrently by a
\* database that fails no statement but for a unique key: the first holder
\* funds its wallet (add-funds of 5, deposits of 10), both transfer 5
NextWallet ==
    \/ Tick
    \/ \E p \in Procs :
        \/ AddFundsBegin(p, {AdminUser}, {5}, NoPre)
        \/ AddFundsCommit(p, FALSE)
        \/ TransferBegin(p, UserIds, WalletIds, {5}, NoPre)
        \/ Transfer(p, FALSE)
        \/ MockDepositBegin(p, {AdminUser}, {MinDeposit}, {"upi"}, NoPre)
        \/ MockDepositLock(p)
        \/ MockDepositRead(p)
        \/ MockDepositCommit(p, FALSE)
        \/ Finish(p)

SpecWallet == InitRegistered /\ [][NextWallet]_vars

\* both accounts registered, each with its wallet; the first holder has added
\* funds twice
InitFunded ==
    /\ users = UserIds
    /\ wallets = [u \in UserIds |-> [user_id |-> u,
                                     wallet_id |-> generate_wallet_id(u, Email(u)),
                                     balance |-> IF u = AdminUser THEN 10 ELSE 0]]
    /\ transactions = <<>>
    /\ blocks = <<>>
    /\ deposit_processing = {}
    /\ model = "None"
    /\ is_trained = FALSE
    /\ now = 0
    /\ hash_seed \in HashSeeds
    /\ proc = [p \in Procs |-> Idle]
    /\ resp = [p \in Procs |-> NoResp]
    /\ pre = [p \in Procs |-> NoPre]

\* the requests that append to the ledger, transfers of 5 by the first holder
\* and created transactions of 5, served concurrently
NextAppends ==
    \/ Tick
    \/ \E p \in Procs :
        \/ TransferBegin(p, {AdminUser}, WalletIds, {5}, NoPre)
        \/ Transfer(p, TRUE)
        \/ CreateTransactionBegin(p, {5}, NoPre)
        \/ CreateTransaction(p, TRUE)
        \/ Finish(p)

SpecAppends == InitFunded /\ [][NextAppends]_vars

\* the requests that move or create value and those that insert records, served
\* one at a time: add-funds of 5 and deposits of 10 by the first holder, transfers
\* of every kind, valid or not, and created transactions of 5
NextValue ==
    \/ Tick
    \/ AddFundsBegin(1, {AdminUser}, {5}, NoPre)
    \/ AddFundsCommit(1, TRUE)
    \/ TransferBegin(1, UserIds, ReceiverIds, Amounts, NoPre)
    \/ Transfer(1, TRUE)
    \/ CreateTransactionBegin(1, {5}, NoPre)
    \/ CreateTransaction(1, TRUE)
    \/ MockDepositBegin(1, {AdminUser}, {MinDeposit}, {"upi"}, NoPre)
    \/ MockDepositLock(1)
    \/ MockDepositRead(1)
    \/ MockDepositCommit(1, TRUE)
    \/ Finish(1)

SpecValue == InitRegistered /\ [][NextValue]_vars

\* deposit requests and registrations, served concurrently
NextDeposit ==
    \/ Tick
    \/ \E p \in Procs :
        \/ Register(p, TRUE, NoPre)
        \/ MockDepositBegin(p, Callers, Amounts, PaymentMethods, NoPre)
        \/ MockDeposit(p, TRUE)
        \/ Finish(p)

SpecDeposit == Init /\ [][NextDeposit]_vars

\* -------------------------------------------------------------- properties
Quiescent == \A p \in Procs : proc[p].pc = "idle"
Returned(p, op) == proc[p].pc = "done" /\ proc[p].op = op
BlocksOf(tx_id) == {i \in DOMAIN blocks : blocks[i].transaction_id = tx_id}
RecordsOf(tx_id) == {i \in DOMAIN transactions : transactions[i].tx_id = tx_id}

\* the wallet of user u, and of wallet id w, as request p found the database
PreHasWallet(p, u) == \E i \in DOMAIN pre[p].wallets : pre[p].wallets[i].user_id = u
PreWallet(p, u) ==
    pre[p].wallets[CHOOSE i \in DOMAIN pre[p].wallets : pre[p].wallets[i].user_id = u]
PreHasWalletId(p, w) == \E i \in DOMAIN pre[p].wallets : pre[p].wallets[i].wallet_id = w
PreWalletById(p, w) ==
    pre[p].wallets[CHOOSE i \in DOMAIN pre[p].wallets : pre[p].wallets[i].wallet_id = w]
Untouched(p) ==
    /\ wallets = pre[p].wallets
    /\ transactions = pre[p].transactions
    /\ blocks = pre[p].blocks

\* C1: whenever no request is in flight, each Completed record of a transfer or
\* of a created transaction is referenced by exactly one block, and no Failed
\* record is referenced by any block.
C1_CompletedChained ==
    Quiescent =>
        \A i \in DOMAIN transactions :
            LET t == transactions[i]
            IN  /\ (t.transfer_status = "Completed" /\ t.type = "transfer")
                       => Cardinality(BlocksOf(t.tx_id)) = 1
                /\ t.transfer_status = "Failed" => BlocksOf(t.tx_id) = {}

\* C2, for the ledger append: when a transfer whose ledger append failed has
\* returned, the wallets hold their balances of before the transfer, exactly one
\* record exists for the attempt, it is Failed with score 0 and label Clear, no
\* block references it, and the caller got the internal-failure error.
C2_LedgerFailureRestores ==
    \A p \in Procs :
        (Returned(p, "transfer") /\ proc[p].fault = "ledger") =>
            /\ wallets = pre[p].wallets
            /\ Cardinality(RecordsOf(proc[p].tx_id)) = 1
            /\ \A i \in RecordsOf(proc[p].tx_id) :
                   /\ transactions[i].transfer_status = "Failed"
                   /\ transactions[i].fraud_score = 0
                   /\ transactions[i].status = "Clear"
            /\ BlocksOf(proc[p].tx_id) = {}
            /\ resp[p].status = 500

\* C3: when the appends run one after the other, the chain in index order has
\* indices 0, 1, 2, ... without gap or repeat, its first block has 64 zeros as
\* previous hash, and every later block has its predecessor's hash as previous
\* hash.
C3_ChainLinked ==
    LET chain == get_chain
    IN  \A k \in DOMAIN chain :
            /\ chain[k].block_index = k - 1
            /\ k = 1 => chain[k].previous_hash = [i \in 1..64 |-> 0]
            /\ k > 1 => chain[k].previous_hash = chain[k - 1].current_hash

C3_TwoBlocks == Quiescent /\ Len(blocks) >= 2

\* C4: when a transfer of A from wallet X to another wallet Y has returned
\* Completed, X holds its balance of before minus A, Y its balance of before
\* plus A, the sum of the two is as before, and the tables gained exactly one
\* record, Completed and of this transfer, and exactly one block, referencing it.
C4_CompletedTransfer ==
    \A p \in Procs :
        (Returned(p, "transfer") /\ resp[p].transferStatus = "Completed") =>
            LET a == proc[p].amount
                x == PreWallet(p, proc[p].user)
                y == PreWalletById(p, proc[p].receiver_wallet_id)
            IN  /\ x.wallet_id # y.wallet_id
                /\ Balance(x.user_id) = x.balance - a
                /\ Balance(y.user_id) = y.balance + a
                /\ Balance(x.user_id) + Balance(y.user_id) = x.balance + y.balance
                /\ transactions = Append(pre[p].transactions,
                                         transactions[Len(transactions)])
                /\ transactions[Len(transactions)].tx_id = proc[p].tx_id
                /\ transactions[Len(transactions)].transfer_status = "Completed"
                /\ transactions[Len(transactions)].amount = a
                /\ blocks = Append(pre[p].blocks, blocks[Len(blocks)])
                /\ blocks[Len(blocks)].transaction_id = proc[p].tx_id

C4_TransferCompleted ==
    \E p \in Procs :
        /\ Returned(p, "transfer")
        /\ resp[p].transferStatus = "Completed"
        /\ proc[p].amount > 0
        /\ PreWalletById(p, proc[p].receiver_wallet_id).balance > 0

\* the requests C5 is about: a transfer, returned, of more than the sender held
Overdraw(p) ==
    /\ Returned(p, "transfer")
    /\ PreHasWallet(p, proc[p].user)
    /\ proc[p].amount > PreWallet(p, proc[p].user).balance

\* C5 as stated: a transfer of more than the sender's balance is rejected with
\* the insufficient-funds error and changes no balance, record or block.
C5_AlwaysInsufficientFunds ==
    \A p \in Procs :
        Overdraw(p) => /\ resp[p].error = "Insufficient balance"
                       /\ Untouched(p)

\* C5: a transfer of more than the sender's balance is rejected as a bad request
\* and changes no balance, record or block; the error is the insufficient-funds
\* error when the request names a receiver wallet other than the sender's own.
C5_OverdrawRejected ==
    \A p \in Procs :
        Overdraw(p) =>
            /\ resp[p].status = 400
            /\ Untouched(p)
            /\ (/\ proc[p].receiver_wallet_id # MissingWalletId
                /\ proc[p].receiver_wallet_id # PreWallet(p, proc[p].user).wallet_id)
                   => resp[p].error = "Insufficient balance"

C5_OverdrawSeen ==
    \E p \in Procs :
        /\ Overdraw(p)
        /\ resp[p].error = "Insufficient balance"
        /\ PreWallet(p, proc[p].user).balance > 0
        /\ PreHasWalletId(p, proc[p].receiver_wallet_id)

\* C6: a transfer to the sender's own wallet id is rejected, whatever the amount
\* and the balance, and changes no balance, record or block.
C6_SelfTransferRejected ==
    \A p \in Procs :
        (/\ Returned(p, "transfer")
         /\ PreHasWallet(p, proc[p].user)
         /\ proc[p].receiver_wallet_id = PreWallet(p, proc[p].user).wallet_id) =>
            /\ resp[p].status = 400
            /\ Untouched(p)

C6_AffordableSelfTransfer ==
    \E p \in Procs :
        /\ Returned(p, "transfer")
        /\ PreHasWallet(p, proc[p].user)
        /\ proc[p].receiver_wallet_id = PreWallet(p, proc[p].user).wallet_id
        /\ proc[p].amount > 0
        /\ proc[p].amount <= PreWallet(p, proc[p].user).balance
        /\ resp[p].error = "Cannot transfer to your own wallet"

\* what the step of request p commits to the wallet of user u: the amount of a
\* successful credit, minus the amount of a successful debit
CommittedDelta(p, u) ==
    IF proc[p].pc = "af_commit" /\ resp'[p].status = 200
    THEN IF proc[p].user = u THEN proc[p].amount ELSE 0
    ELSE IF proc[p].pc = "md_commit" /\ resp'[p].status = 200
    THEN IF proc[p].user = u THEN proc[p].amount ELSE 0
    ELSE IF proc[p].pc = "tr_commit" /\ proc'[p].pc = "tr_block_read"
    THEN (IF proc[p].ruser = u THEN proc[p].amount ELSE 0)
             - (IF proc[p].user = u THEN proc[p].amount ELSE 0)
    ELSE 0

\* C7: no update is lost: every step of a request moves every wallet's balance
\* by exactly what the step commits to it, so that the balance after all
\* requests is the initial one plus the successful credits minus the successful
\* debits.
C7_NoLostUpdate ==
    [][\A p \in Procs, u \in UserIds :
           proc'[p] # proc[p] => Balance(u)' = Balance(u) + CommittedDelta(p, u)]_vars

\* C8: no wallet balance is negative, in any state of any interleaving.
C8_NonNegative == \A i \in DOMAIN wallets : wallets[i].balance >= 0

\* two transfers out of one wallet, both past their commit and both in flight,
\* whose amounts together exceed the balance they read
C8_ConcurrentOverdraw ==
    \E p, q \in Procs :
        /\ p # q
        /\ proc[p].op = "transfer" /\ proc[p].pc = "tr_block_read"
        /\ proc[q].op = "transfer" /\ proc[q].pc = "tr_block_read"
        /\ proc[p].user = proc[q].user
        /\ proc[p].bal = proc[q].bal
        /\ proc[p].amount + proc[q].amount > proc[p].bal

\* a deposit request between the acquisition of the guard (line 265) and the
\* finally clause (line 318)
Processing(p) ==
    /\ proc[p].op = "mock_deposit"
    /\ proc[p].pc \in {"md_read", "md_create", "md_refresh", "md_commit"}

\* C9: two deposit requests of one user are never both being processed.
C9_OneProcessed ==
    \A p, q \in Procs :
        (p # q /\ Processing(p) /\ Processing(q)) => proc[p].user # proc[q].user

\* C10: the guard of a user is held only while a deposit request of that user is
\* being processed; so once a deposit request has returned, by whichever exit,
\* the guard is free unless another request of that user is being processed.
C10_GuardReleased ==
    \A u \in Callers :
        lock_key(u) \in deposit_processing =>
            \E p \in Procs : Processing(p) /\ proc[p].user = u

C10_ReturnedAfterFailure ==
    \E p \in Procs :
        /\ Returned(p, "mock_deposit")
        /\ resp[p].status = 500
        /\ lock_key(proc[p].user) \notin deposit_processing
        /\ \A q \in Procs : ~Processing(q)

\* the positions of the chain whose block does not carry its predecessor's hash
Offending(chain) ==
    {i \in 2..Len(chain) : chain[i].previous_hash # chain[i - 1].current_hash}

\* no row was changed since add_block wrote it: each block's hash is the hash
\* of its own fields
Untampered(rows) ==
    \A k \in DOMAIN rows :
        rows[k].current_hash =
            compute_hash(rows[k].transaction_id, rows[k].previous_hash,
                         rows[k].timestamp, rows[k].block_index)

\* C11: the validation returned for the chain stored when the request is served
\* is valid with no error exactly when every block after the first carries its predecessor's hash; otherwise it
\* is invalid with one error per offending position, in order, each naming the
\* block's index and the two hashes; totalBlocks is the number of stored blocks;
\* and a chain built by appends served one after the other and left untouched
\* validates as valid with no error.
C11_ValidationReport ==
    \A p \in Procs :
        Returned(p, "get_blockchain") =>
            LET v == resp[p].validation
                chain == resp[p].chain
                bad == Offending(chain)
                stored == pre[p].blocks
            IN  /\ Len(chain) = Len(stored)
                /\ \A i \in DOMAIN stored : \E k \in DOMAIN chain : chain[k] = stored[i]
                /\ \A k \in 2..Len(chain) : chain[k - 1].block_index <= chain[k].block_index
                /\ v.totalBlocks = Len(stored)
                /\ v.valid = (bad = {})
                /\ v.valid = (v.errors = <<>>)
                /\ Len(v.errors) = Cardinality(bad)
                /\ \A i \in bad :
                       LET n == Cardinality({j \in bad : j <= i})
                       IN  /\ v.errors[n].block = chain[i].block_index
                           /\ v.errors[n].expected = chain[i - 1].current_hash
                           /\ v.errors[n].got = chain[i].previous_hash
                /\ Untampered(stored) => (v.valid /\ v.errors = <<>>)

C11_MismatchReported ==
    \E p \in Procs :
        /\ Returned(p, "get_blockchain")
        /\ ~resp[p].validation.valid
        /\ Len(resp[p].validation.errors) = 2
        /\ resp[p].validation.totalBlocks = 3

\* C12: when the previous_hash of one block of a valid chain, and nothing else,
\* is changed to a different value, validate_chain then returns valid = false
\* with exactly one error, and that error names the index of the changed block.
C12_OneErrorAtCorruptedBlock ==
    [][\A k \in DOMAIN blocks :
          (/\ validate_chain.valid
           /\ blocks'[k].previous_hash # blocks[k].previous_hash
           /\ blocks' = [blocks EXCEPT ![k].previous_hash = blocks'[k].previous_hash])
              => /\ ~validate_chain'.valid
                 /\ Len(validate_chain'.errors) = 1
                 /\ validate_chain'.errors[1].block = blocks[k].block_index]_vars

\* a step of the application: of a request, or of the clock
RequestStep == now' # now \/ \E p \in Procs : proc'[p] # proc[p]

\* C13: no step of a transfer, created transaction, deposit, add-funds or
\* chain request changes or removes a stored block: the stored rows, and the
\* chain in index order, of the state before are a prefix of those after; and a
\* chain request leaves the rows as they are, whatever its validation reports.
C13_AppendOnly ==
    [][RequestStep =>
          /\ Len(blocks') >= Len(blocks)
          /\ SubSeq(blocks', 1, Len(blocks)) = blocks
          /\ SubSeq(get_chain', 1, Len(blocks)) = get_chain
          /\ (\E p \in Procs : proc[p].pc = "idle" /\ proc'[p].op = "get_blockchain")
                 => blocks' = blocks]_vars

C13_MismatchLeftInPlace ==
    \E p \in Procs :
        /\ Returned(p, "get_blockchain")
        /\ ~resp[p].validation.valid
        /\ blocks = pre[p].blocks
        /\ ~Untampered(blocks)

\* the score in thousandths that is clamp(x, lo, hi)
Clamped(x, lo, hi) == IF x < lo THEN lo ELSE IF x > hi THEN hi ELSE x

\* C14: every score the scorer returns, in rule-based mode and in anomaly-model
\* mode, where it is clamp(0.5 - raw, 0, 1), is within [0, 1]; the label returned
\* with it is Clear below 0.4, Review from 0.4 to below 0.7, Suspicious from 0.7;
\* and the label is Review at exactly 0.4 and Suspicious at exactly 0.7.
C14_ScoreAndLabel ==
    /\ \A p \in Procs :
           Returned(p, "predict_fraud") =>
               LET score == proc[p].fraud_score
               IN  /\ score \in 0..1000
                   /\ is_trained =>
                          \E raw \in RawScores : score = Clamped(500 - raw, 0, 1000)
                   /\ resp[p].label = IF score < 400 THEN "Clear"
                                      ELSE IF score < 700 THEN "Review"
                                      ELSE "Suspicious"
    /\ get_status_label(399) = "Clear"
    /\ get_status_label(400) = "Review"
    /\ get_status_label(699) = "Review"
    /\ get_status_label(700) = "Suspicious"

C14_SuspiciousAtThreshold ==
    \E p \in Procs :
        /\ Returned(p, "predict_fraud")
        /\ is_trained
        /\ proc[p].fraud_score = 700
        /\ resp[p].label = "Suspicious"

\* the sum of the rules of the rule-based score, in thousandths
RuleBase(amount, sender_freq, receiver_freq, hour) ==
    (IF amount > 50000 THEN 350 ELSE IF amount > 10000 THEN 200
     ELSE IF amount > 5000 THEN 100 ELSE 0)
    + (IF amount > 0 /\ amount % 1000 = 0 THEN 50 ELSE 0)
    + (IF sender_freq > 10 THEN 150 ELSE IF sender_freq > 5 THEN 80 ELSE 0)
    + (IF receiver_freq > 10 THEN 150 ELSE IF receiver_freq > 5 THEN 80 ELSE 0)
    + (IF hour < 6 \/ hour > 22 THEN 100 ELSE 0)

\* C15: the score of the untrained scorer is clamp(base + jitter, 0, 0.95) for
\* the sum base of the rules that apply and some jitter in [0, 0.2); for an
\* amount of 60000, both frequencies 1 and hour 14 it is at least 0.35 and its
\* label is Review or Suspicious.
C15_RuleBasedScore ==
    \A p \in Procs :
        (Returned(p, "predict_fraud") /\ ~is_trained) =>
            LET base == RuleBase(proc[p].amount, proc[p].sender_freq,
                                 proc[p].receiver_freq, proc[p].hour)
            IN  /\ \E jitter \in 0..199 :
                       proc[p].fraud_score = Clamped(base + jitter, 0, 950)
                /\ (/\ proc[p].amount = 60000
                    /\ proc[p].sender_freq = 1
                    /\ proc[p].receiver_freq = 1
                    /\ proc[p].hour = 14)
                       => /\ proc[p].fraud_score >= 350
                          /\ resp[p].label \in {"Review", "Suspicious"}

C15_LargeAmountScored ==
    \E p \in Procs :
        /\ Returned(p, "predict_fraud")
        /\ ~is_trained
        /\ proc[p].amount = 60000
        /\ proc[p].sender_freq = 1
        /\ proc[p].receiver_freq = 1
        /\ proc[p].hour = 14
        /\ resp[p].label = "Review"

\* a deposit request that line 253 or line 256 must reject
InvalidDeposit(r) ==
    r.op = "mock_deposit"
        /\ (r.amount < 10 \/ r.payment_method \notin {"upi", "card", "netbanking"})

\* C16: a deposit request with an amount below 10 or a payment method other
\* than upi, card, netbanking returns at once with a validation error (400), and
\* its step changes no wallet, record or block and leaves the set of deposit
\* guards as it was, whatever other requests are in flight.
C16_InvalidDepositRejected ==
    [][\A p \in Procs :
          (proc[p].pc = "idle" /\ InvalidDeposit(proc'[p])) =>
              /\ proc'[p].pc = "done"
              /\ resp'[p].status = 400
              /\ resp'[p].error \in {"Minimum deposit amount", "Invalid payment method"}
              /\ wallets' = wallets
              /\ transactions' = transactions
              /\ blocks' = blocks
              /\ deposit_processing' = deposit_processing]_vars

C16_SmallDepositWhileProcessing ==
    \E p, q \in Procs :
        /\ Returned(p, "mock_deposit")
        /\ proc[p].amount = 5
        /\ resp[p].error = "Minimum deposit amount"
        /\ Processing(q)
        /\ proc[q].user = proc[p].user

\* the balance of user u as request p found it; 0 when u had no wallet yet
PreBalance(p, u) == IF PreHasWallet(p, u) THEN PreWallet(p, u).balance ELSE 0

\* the wallets of the users other than u are as request p found them
OthersUntouched(p, u) ==
    /\ \A i \in DOMAIN wallets :
           wallets[i].user_id # u =>
               /\ PreHasWallet(p, wallets[i].user_id)
               /\ PreWallet(p, wallets[i].user_id) = wallets[i]
    /\ \A i \in DOMAIN pre[p].wallets : HasWallet(pre[p].wallets[i].user_id)

\* C17: when a deposit of A has returned with success, the owner's balance is
\* its balance of before plus A, no other wallet changed, and the tables gained
\* exactly one record: a deposit, Completed, score 0, label Clear, from
\* "Bank Deposit" to the owner, of amount A, with the request's payment method
\* and a payment id; when it has returned with an internal failure, the balance
\* is as before and there is no new record.
C17_DepositCredited ==
    \A p \in Procs :
        Returned(p, "mock_deposit") =>
            LET u == proc[p].user
                a == proc[p].amount
                t == transactions[Len(transactions)]
            IN  /\ resp[p].status = 200 =>
                       /\ HasWallet(u)
                       /\ Balance(u) = PreBalance(p, u) + a
                       /\ Balance(u) >= PreBalance(p, u)
                       /\ OthersUntouched(p, u)
                       /\ transactions = Append(pre[p].transactions, t)
                       /\ t.type = "deposit"
                       /\ t.transfer_status = "Completed"
                       /\ t.fraud_score = 0
                       /\ t.status = "Clear"
                       /\ t.sender = "Bank Deposit"
                       /\ t.receiver = Email(u)
                       /\ t.amount = a
                       /\ t.payment_method = proc[p].payment_method
                       /\ t.payment_method \in {"upi", "card", "netbanking"}
                       /\ t.payment_id # ""
                       /\ blocks = pre[p].blocks
                /\ resp[p].status = 500 =>
                       /\ HasWallet(u) => Balance(u) = PreBalance(p, u)
                       /\ OthersUntouched(p, u)
                       /\ transactions = pre[p].transactions
                       /\ blocks = pre[p].blocks

C17_DepositOnBalance ==
    \E p \in Procs :
        /\ Returned(p, "mock_deposit")
        /\ resp[p].status = 200
        /\ PreBalance(p, proc[p].user) > 0

\* C18: when an add-funds request of a positive amount has returned with
\* success, the caller's balance is its balance of before plus the amount, no
\* other wallet changed, no record and no block was added, and the request
\* computed no score; an add-funds request of an amount that is not positive is
\* rejected (400) and changes nothing.
C18_AddFundsOnlyCredits ==
    \A p \in Procs :
        Returned(p, "add_funds") =>
            LET u == proc[p].user
            IN  /\ resp[p].status = 200 =>
                       /\ proc[p].amount > 0
                       /\ HasWallet(u)
                       /\ Balance(u) = PreBalance(p, u) + proc[p].amount
                       /\ OthersUntouched(p, u)
                       /\ transactions = pre[p].transactions
                       /\ blocks = pre[p].blocks
                       /\ proc[p].fraud_score = 0
                       /\ proc[p].tx_id = NoTxId
                       /\ proc[p].block = NoBlock
                /\ proc[p].amount <= 0 =>
                       /\ resp[p].status = 400
                       /\ Untouched(p)
                /\ (proc[p].amount > 0 /\ PreHasWallet(p, u)) =>
                       resp[p].status \in {200, 500}

C18_FundsAddedToBalance ==
    \E p \in Procs :
        /\ Returned(p, "add_funds")
        /\ resp[p].status = 200
        /\ PreBalance(p, proc[p].user) > 0
        /\ Len(transactions) > 0
        /\ Len(wallets) > 1

\* request p is a transfer returned Completed, or a created transaction
\* returned with success
Committed(p) ==
    \/ Returned(p, "transfer") /\ resp[p].transferStatus = "Completed"
    \/ Returned(p, "create_transaction") /\ resp[p].status = 201

\* C19: when a transfer or a created transaction has returned with success and
\* its record has brought the number of records to a multiple of 10, the model
\* has been retrained on the history: it is fitted and trained.
C19_RetrainedAtMultiple ==
    \A p \in Procs :
        (Committed(p) /\ Len(transactions) % 10 = 0) =>
            (is_trained /\ model = "fitted")

\* C20: whenever no request is in flight, the model is trained exactly when the
\* history holds at least 10 records, whichever requests inserted them.
C20_TrainedFromThreshold ==
    Quiescent => (is_trained <=> Len(transactions) >= 10)

\* ---------------------------------------------------------------------------
\* C21: a prediction that runs while the model is retrained always uses a fitted
\* model: no scoring call finds the flag _is_trained set with a forest that has
\* been assigned to _model and not yet fitted, and no scoring call fails
C21_ScoringUsesFittedModel ==
    \A p \in Procs : proc[p].fault # "predict"

\* C22: retraining is best-effort: a created transaction whose record is
\* persisted and whose block is appended is answered with 201 whatever happens
\* in the retraining that it triggers
C22_RetrainBestEffort ==
    \A p \in Procs :
        ( /\ Returned(p, "create_transaction")
          /\ RecordsOf(proc[p].tx_id) # {}
          /\ proc[p].block \in {blocks[i] : i \in DOMAIN blocks} )
        => resp[p].status = 201

\* C23: when requests that append a block run concurrently, the chain keeps
\* unique indices without gaps, every block's previous_hash is the current_hash
\* of the block of the preceding index, and no two blocks share a previous_hash
C23_ConcurrentAppendsLinked ==
    /\ \A i, j \in DOMAIN blocks :
          i # j => /\ blocks[i].block_index # blocks[j].block_index
                   /\ blocks[i].previous_hash # blocks[j].previous_hash
    /\ {blocks[i].block_index : i \in DOMAIN blocks} = 0..(Len(blocks) - 1)
    /\ \A i, j \in DOMAIN blocks :
          blocks[j].block_index = blocks[i].block_index + 1
              => blocks[j].previous_hash = blocks[i].current_hash


\* C24: a persisted TransactionRecord is final: every step keeps every record
\* as it is (status, score, label, amount, parties), every record stored by a
\* step is Completed or Failed, no attempt (tx_id) has two records, and a
\* transfer attempt that got its tx_id is answered Completed or Failed
RecordsKept ==
    \A i \in DOMAIN transactions :
        i \in DOMAIN transactions' /\ transactions'[i] = transactions[i]

C24_RecordsFinal ==
    [][ /\ RecordsKept
        /\ \A i \in DOMAIN transactions' :
              /\ transactions'[i].transfer_status \in {"Completed", "Failed"}
              /\ \A j \in DOMAIN transactions' :
                    transactions'[j].tx_id = transactions'[i].tx_id => i = j
        /\ \A p \in Procs :
              (proc'[p].pc = "done" /\ proc'[p].op = "transfer"
                   /\ proc'[p].tx_id # NoTxId)
              => resp'[p].transferStatus \in {"Completed", "Failed"} ]_vars

\* a transfer answered Failed whose record is stored as Completed, next to the
\* record of a completed deposit
C24_FailedAnswerCompletedRecord ==
    \E p \in Procs :
        /\ Returned(p, "transfer")
        /\ resp[p].transferStatus = "Failed"
        /\ \E i \in RecordsOf(proc[p].tx_id) : transactions[i].transfer_status = "Completed"
        /\ \E i \in DOMAIN transactions : transactions[i].type = "deposit"

\* C25: there is at most one wallet per account: every step keeps every wallet
\* row with its owner and its wallet id, and after every step no two rows have
\* the same user_id, however the requests that create a missing wallet
\* (registration, get-wallet, add-funds, mock-deposit) interleave
C25_OneWalletPerAccount ==
    [][ /\ \A i \in DOMAIN wallets :
              /\ i \in DOMAIN wallets'
              /\ wallets'[i].user_id = wallets[i].user_id
              /\ wallets'[i].wallet_id = wallets[i].wallet_id
        /\ \A i, j \in DOMAIN wallets' :
              wallets'[i].user_id = wallets'[j].user_id => i = j ]_vars

\* a request that found no wallet is about to insert one although another
\* request has created the wallet since
C25_LateCreator ==
    \E p \in Procs :
        /\ proc[p].pc \in {"gw_create", "af_create", "md_create"}
        /\ HasWallet(proc[p].user)

\* the kind of error that a rejection of transfer reports
ErrorKind(err) ==
    CASE err \in {"Receiver wallet ID is required", "amount must be positive"} -> "validation"
      [] err = "Cannot transfer to your own wallet" -> "self-transfer"
      [] err = "Insufficient balance" -> "insufficient funds"
      [] err \in {"Receiver wallet not found", "Sender wallet not found"} -> "not found"
      [] OTHER -> "none"

\* the first check that request p fails, the checks taken in the order amount,
\* self-transfer, balance, receiver, on the database as the request found it
FirstFailing(p) ==
    LET r == proc[p]
        w == PreWallet(p, r.user)
    IN  IF r.amount <= 0 THEN "validation"
        ELSE IF r.receiver_wallet_id = w.wallet_id THEN "self-transfer"
        ELSE IF r.amount > w.balance THEN "insufficient funds"
        ELSE IF ~PreHasWalletId(p, r.receiver_wallet_id) THEN "not found"
        ELSE "none"

\* the same with the check of a missing receiver wallet id taken first
FirstFailingFromReceiver(p) ==
    IF proc[p].receiver_wallet_id = MissingWalletId THEN "validation"
    ELSE FirstFailing(p)

\* C26 as stated: the transfer of a wallet holder is validated in the order
\* amount <= 0, self-transfer, insufficient funds, unknown receiver; the first
\* failing check decides the error and the rejection changes nothing
C26_ValidationOrder ==
    \A p \in Procs :
        ( /\ Returned(p, "transfer")
          /\ PreHasWallet(p, proc[p].user)
          /\ FirstFailing(p) # "none" )
        => /\ resp[p].status \in {400, 404}
           /\ ErrorKind(resp[p].error) = FirstFailing(p)
           /\ Untouched(p)

\* C26: the transfer of a wallet holder is validated in the order missing
\* receiver wallet id, amount <= 0, self-transfer, insufficient funds, unknown
\* receiver; the first failing check decides the error and the rejection leaves
\* balances, records and chain unchanged
C26_ValidationOrderFromReceiver ==
    \A p \in Procs :
        ( /\ Returned(p, "transfer")
          /\ PreHasWallet(p, proc[p].user)
          /\ FirstFailingFromReceiver(p) # "none" )
        => /\ resp[p].status \in {400, 404}
           /\ ErrorKind(resp[p].error) = FirstFailingFromReceiver(p)
           /\ Untouched(p)

\* a transfer above the balance to an unknown wallet, reported as insufficient
\* funds, by a sender whose balance is positive
C26_OverBalanceToUnknown ==
    \E p \in Procs :
        /\ Returned(p, "transfer")
        /\ PreHasWallet(p, proc[p].user)
        /\ PreWallet(p, proc[p].user).balance > 0
        /\ proc[p].amount > PreWallet(p, proc[p].user).balance
        /\ proc[p].receiver_wallet_id = UnknownWalletId
        /\ resp[p].error = "Insufficient balance"

\* C27: the deposit guard is keyed by user and owned by its holder: the first
\* step of a deposit request never changes the guard, and a request that passes
\* validation goes on to be processed unless a deposit of the same user holds the
\* guard, whatever deposits of other users are in flight; it is answered 429
\* exactly when the guard of its user is held, and the guard stays held
C27_GuardPerUser ==
    [][ \A p \in Procs :
          (proc[p].pc = "idle" /\ proc'[p].op = "mock_deposit")
          => LET r == proc'[p]
                 key == <<"deposit", r.user>>
             IN  /\ deposit_processing' = deposit_processing
                 /\ (r.amount >= MinDeposit /\ r.payment_method \in ValidMethods)
                    => IF key \in deposit_processing
                       THEN r.pc = "done" /\ resp'[p].status = 429
                       ELSE r.pc = "md_lock" ]_vars

\* a deposit of a user was answered 429 while another deposit of that user is
\* being processed and still holds the guard
C27_ConflictKeepsGuard ==
    \E p, q \in Procs :
        /\ Returned(p, "mock_deposit")
        /\ resp[p].status = 429
        /\ Processing(q)
        /\ proc[q].user = proc[p].user
        /\ <<"deposit", proc[q].user>> \in deposit_processing

\* C28: the outcome that a transfer reports agrees with what it persisted: when
\* the response says Failed, the attempt stored no Completed record and the
\* balances of sender and receiver are those the request found; when it says
\* Completed, the attempt's Completed record and its block are stored
C28_OutcomeAgrees ==
    \A p \in Procs :
        Returned(p, "transfer") =>
            LET mine == {i \in RecordsOf(proc[p].tx_id) :
                            i \notin DOMAIN pre[p].transactions}
            IN  /\ resp[p].transferStatus = "Failed"
                   => /\ \A i \in mine : transactions[i].transfer_status # "Completed"
                      /\ Balance(proc[p].user) = PreWallet(p, proc[p].user).balance
                      /\ Balance(proc[p].ruser) = PreWallet(p, proc[p].ruser).balance
                /\ resp[p].transferStatus = "Completed"
                   => /\ \E i \in mine : transactions[i].transfer_status = "Completed"
                      /\ BlocksOf(proc[p].tx_id) # {}

\* the sum of the balances of the rows of table wallets
TotalBalance(rows) ==
    LET RECURSIVE sum(_)
        sum(k) == IF k = 0 THEN 0 ELSE rows[k].balance + sum(k - 1)
    IN  sum(Len(rows))

\* what a step credits: the amount of the add-funds or deposit request that the
\* step answers with 200
Credited(p) ==
    IF /\ proc[p].op \in {"add_funds", "mock_deposit"}
       /\ proc[p].pc # "done"
       /\ proc'[p].pc = "done"
       /\ resp'[p].status = 200
    THEN proc[p].amount
    ELSE 0

\* C29: with requests served one at a time, value is only created by add-funds
\* and mock-deposit: a step that completes one of them with success raises the
\* sum of all balances by its amount, and every other step (of a transfer that
\* is Completed, Failed or rejected, of a created transaction, of a failed
\* credit) leaves the sum as it is; the sum is 0 when the server starts
C29_ValueOnlyCredited ==
    [][TotalBalance(wallets') = TotalBalance(wallets) + Credited(1) + Credited(2)]_vars

\* after an add-funds of 5 and a deposit of 10, a transfer has moved 5 to the
\* second wallet and was answered Failed
C29_MovedByFailedTransfer ==
    \E p \in Procs :
        /\ Returned(p, "transfer")
        /\ resp[p].transferStatus = "Failed"
        /\ Balance(2) = 5
        /\ TotalBalance(wallets) = 15

\* C30: every block references the id of a stored record whose transfer_status
\* is Completed, and no two blocks reference the same transaction id, also when
\* two requests build the same tx_id within one millisecond
C30_BlocksReferenceCompleted ==
    /\ \A i \in DOMAIN blocks :
          \E j \in DOMAIN transactions :
              /\ transactions[j].tx_id = blocks[i].transaction_id
              /\ transactions[j].transfer_status = "Completed"
    /\ \A i, k \in DOMAIN blocks :
          blocks[i].transaction_id = blocks[k].transaction_id => i = k

\* a created transaction and a transfer built the same tx_id: the first stored
\* its record and its block, the transfer met the unique key and was answered
\* Failed
C30_SameIdCollision ==
    \E p, q \in Procs :
        /\ Returned(p, "transfer")
        /\ proc[p].fault = "commit"
        /\ resp[p].transferStatus = "Failed"
        /\ Returned(q, "create_transaction")
        /\ resp[q].status = 201
        /\ proc[q].tx_id = proc[p].tx_id
        /\ BlocksOf(proc[p].tx_id) # {}

\* C31: a mock-deposit, successful or not, leaves the ledger chain and the fraud
\* model unchanged: no step of a deposit request changes the chain, the model or
\* the trained flag, the request computes no score and builds no block, and the
\* record that it stores carries the score 0 and the label Clear, also when that
\* record brings the count to a multiple of 10
C31_DepositLeavesLedgerAndModel ==
    [][ \A p \in Procs :
          (proc'[p] # proc[p] /\ "mock_deposit" \in {proc[p].op, proc'[p].op})
          => /\ blocks' = blocks
             /\ model' = model
             /\ is_trained' = is_trained
             /\ proc'[p].op = "mock_deposit"
                => proc'[p].fraud_score = 0 /\ proc'[p].block = NoBlock
             /\ \A i \in DOMAIN transactions' \ DOMAIN transactions :
                   /\ transactions'[i].fraud_score = 0
                   /\ transactions'[i].status = "Clear" ]_vars

\* a deposit stored the record that brought the count to the training threshold,
\* and the model is untrained and the chain as long as before
C31_DepositAtMultiple ==
    \E p \in Procs :
        /\ Returned(p, "mock_deposit")
        /\ resp[p].status = 200
        /\ Len(transactions) = RetrainEvery
        /\ transactions[Len(transactions)].tx_id = proc[p].tx_id
        /\ ~is_trained
        /\ Len(blocks) = RetrainEvery - 1

\* C32: once the model is trained it never goes back to untrained: no step of a
\* transfer, deposit, generic transaction or retraining clears the trained flag,
\* the model is only replaced while at least 10 records are stored, and a
\* retraining that completes leaves the flag set and a fitted model in place
C32_TrainedForGood ==
    [][ /\ is_trained => is_trained'
        /\ model' # model => Len(transactions) >= MIN_SAMPLES_TO_TRAIN
        /\ \A p \in Procs :
              (proc[p].pc = "ct_fit" /\ proc'[p].pc = "done")
              => is_trained' /\ model' = "fitted" ]_vars

\* a retraining of a model that was trained already has completed, on the
\* twentieth record
C32_RetrainedWhileTrained ==
    \E p \in Procs :
        /\ Returned(p, "create_transaction")
        /\ resp[p].status = 201
        /\ Len(transactions) = 2 * RetrainEvery
        /\ transactions[Len(transactions)].tx_id = proc[p].tx_id
        /\ is_trained
        /\ model = "fitted"

====
